---- MODULE Spec2Model ----
(***************************************************************************)
(* A model of LDCS/genutil: the compression-aware file resolution helpers  *)
(* (ReadableFilename, WritableFilename, OpenGzFile) of src/genutil.go and  *)
(* the map-sorting helpers of src/genutil_sortbykey.go and                 *)
(* src/genutil_sortbyval.go.                                               *)
(*                                                                         *)
(* A Go string is modelled as the sequence of its characters, so that      *)
(* strings.HasSuffix, strings.HasPrefix and the slice s[:len(s)-n] are     *)
(* computed on the characters as the code computes them.                   *)
(***************************************************************************)
EXTENDS Integers, Sequences, FiniteSets, TLC

VARIABLES fs, xbit, op, arg, ret, pre, prex, fresh,
          skind, smap, siter, sfn, sout, again,
          procs, handles, env, content, stream, num, count, keepbase, ndel, gzf, pc

vars == <<fs, xbit, op, arg, ret, pre, prex, fresh, skind, smap, siter, sfn, sout, again,
          procs, handles, env, content, stream, num, count, keepbase, ndel, gzf, pc>>
fsvars == <<fs, xbit, op, arg, ret, pre, prex, fresh>>
sortvars == <<skind, smap, siter, sfn, sout, again>>
iovars == <<procs, handles, env, content, stream, num, count, keepbase, ndel, gzf, pc>>

(***************************************************************************)
(* Strings                                                                 *)
(***************************************************************************)
DotXz == <<".", "x", "z">>
DotGz == <<".", "g", "z">>
DotBz2 == <<".", "b", "z", "2">>
DotZip == <<".", "z", "i", "p">>
DotZIP == <<".", "Z", "I", "P">>
DotBash == <<".", "b", "a", "s", "h">>
DevNull == <<"/", "d", "e", "v", "/", "n", "u", "l", "l">>
DevPrefix == <<"/", "d", "e", "v", "/">>
XzcatPath == <<"/", "u", "s", "r", "/", "b", "i", "n", "/", "x", "z", "c", "a", "t">>
ZcatPath == <<"/", "b", "i", "n", "/", "z", "c", "a", "t">>
BzcatPath == <<"/", "u", "s", "r", "/", "b", "i", "n", "/", "b", "z", "c", "a", "t">>
UnzipPath == <<"/", "u", "s", "r", "/", "b", "i", "n", "/", "u", "n", "z", "i", "p", " ", "-", "p">>
CatPath == <<"/", "b", "i", "n", "/", "c", "a", "t">>

\* strings.HasSuffix(s, suffix)
HasSuffix(s, suffix) ==
    /\ Len(s) >= Len(suffix)
    /\ SubSeq(s, Len(s) - Len(suffix) + 1, Len(s)) = suffix

\* strings.HasPrefix(s, prefix)
HasPrefix(s, prefix) ==
    /\ Len(s) >= Len(prefix)
    /\ SubSeq(s, 1, Len(prefix)) = prefix

\* s[:len(s)-n]
DropLast(s, n) == SubSeq(s, 1, Len(s) - n)

(***************************************************************************)
(* The files the model knows: one stem, its compression and script         *)
(* variants, two doubly-suffixed names, and the null device.               *)
(***************************************************************************)
Stem == <<"f">>
PlainNames ==
    { Stem, Stem \o DotXz, Stem \o DotGz, Stem \o DotBz2, Stem \o DotZip,
      Stem \o DotZIP, Stem \o DotBash,
      Stem \o DotGz \o DotXz, Stem \o DotBash \o DotXz }
Names == PlainNames \cup {DevNull}

\* The most regular files that exist at once.
MaxFiles == 3

(***************************************************************************)
(* The filesystem collaborator: files is the set of paths os.Stat finds,   *)
(* exec the set of paths with an execute bit.                              *)
(***************************************************************************)
\* No file name.
NoFile == <<>>

PathOK(path, files) == path \in files

\* A check of existence that never looks at the permission bits.
FileExecutable_ExistsOnly(path, files, exec) == path \in files

FileExecutable(path, files, exec) ==
    IF path \notin files THEN FALSE ELSE path \in exec

\* exec.Command(name, args...): the command's argument vector.  A nil
\* *exec.Cmd is the empty vector.
NilCmd == <<>>
Command(name, args) == <<name>> \o args

(***************************************************************************)
(* ReadableFilename                                                        *)
(***************************************************************************)
Resolved(ofname, ofcmd, ofcode) ==
    [ofname |-> ofname, ofcmd |-> ofcmd, ofcode |-> ofcode, panic |-> FALSE]

\* A call that panicked returns nothing: the fields other than panic are
\* the zero values and are never read.
Panicked == [ofname |-> <<>>, ofcmd |-> NilCmd, ofcode |-> 0, panic |-> TRUE]

\* A base name that has the script suffix cut off as well.
StripSuffix_Bash(fname) ==
    IF HasSuffix(fname, DotXz) THEN DropLast(fname, 3)
    ELSE IF HasSuffix(fname, DotGz) THEN DropLast(fname, 3)
    ELSE IF HasSuffix(fname, DotBz2) THEN DropLast(fname, 4)
    ELSE IF HasSuffix(fname, DotZip) THEN DropLast(fname, 4)
    ELSE IF HasSuffix(fname, DotBash) THEN DropLast(fname, 5)
    ELSE fname

\* The base name whose variants are tried when the name itself is absent.
StripSuffix(fname) ==
    IF HasSuffix(fname, DotXz) THEN DropLast(fname, 3)
    ELSE IF HasSuffix(fname, DotGz) THEN DropLast(fname, 3)
    ELSE IF HasSuffix(fname, DotBz2) THEN DropLast(fname, 4)
    ELSE IF HasSuffix(fname, DotZip) THEN DropLast(fname, 4)
    ELSE fname

\* CompressionBasename strips every trailing compression suffix.
\* A basename that strips the last compression suffix only.
CompressionBasename_Once(fname) ==
    IF HasSuffix(fname, DotXz) THEN DropLast(fname, 3)
    ELSE IF HasSuffix(fname, DotGz) THEN DropLast(fname, 3)
    ELSE IF HasSuffix(fname, DotBz2) THEN DropLast(fname, 4)
    ELSE IF HasSuffix(fname, DotZip) THEN DropLast(fname, 4)
    ELSE IF HasSuffix(fname, DotZIP) THEN DropLast(fname, 4)
    ELSE fname

RECURSIVE CompressionBasename(_)
CompressionBasename(fname) ==
    IF HasSuffix(fname, DotXz) THEN CompressionBasename(DropLast(fname, 3))
    ELSE IF HasSuffix(fname, DotGz) THEN CompressionBasename(DropLast(fname, 3))
    ELSE IF HasSuffix(fname, DotBz2) THEN CompressionBasename(DropLast(fname, 4))
    ELSE IF HasSuffix(fname, DotZip) THEN CompressionBasename(DropLast(fname, 4))
    ELSE IF HasSuffix(fname, DotZIP) THEN CompressionBasename(DropLast(fname, 4))
    ELSE fname

\* The file in a different format, preferring .xz.
ReadableVariant(tmpf, files) ==
    IF PathOK(tmpf \o DotXz, files)
    THEN Resolved(tmpf \o DotXz, Command(XzcatPath, <<tmpf \o DotXz>>), 7)
    ELSE IF PathOK(tmpf \o DotGz, files)
    THEN Resolved(tmpf \o DotGz, Command(ZcatPath, <<tmpf \o DotGz>>), 8)
    ELSE IF PathOK(tmpf \o DotBz2, files)
    THEN Resolved(tmpf \o DotBz2, Command(BzcatPath, <<tmpf \o DotBz2>>), 9)
    ELSE IF PathOK(tmpf \o DotZip, files)
    THEN Resolved(tmpf \o DotZip, Command(UnzipPath, <<tmpf \o DotZip>>), 10)
    ELSE IF PathOK(tmpf, files)
    THEN Resolved(tmpf, Command(CatPath, <<tmpf>>), 11)
    ELSE Resolved(DevNull, NilCmd, 0)

ReadableFilename(fname, files, exec) ==
    LET fok == PathOK(fname, files) IN
    IF HasSuffix(fname, DotXz) /\ fok
    THEN Resolved(fname, Command(XzcatPath, <<fname>>), 1)
    ELSE IF HasSuffix(fname, DotGz) /\ fok
    THEN Resolved(fname, Command(ZcatPath, <<fname>>), 2)
    ELSE IF HasSuffix(fname, DotBz2) /\ fok
    THEN Resolved(fname, Command(BzcatPath, <<fname>>), 3)
    ELSE IF HasSuffix(fname, DotZip) /\ fok
    THEN Resolved(fname, Command(UnzipPath, <<fname>>), 4)
    ELSE IF HasSuffix(fname, DotBash)
    THEN IF FileExecutable(fname, files, exec)
         THEN Resolved(DevNull, Command(fname, <<>>), 5)
         ELSE Panicked
    ELSE IF fok
    THEN Resolved(fname, Command(CatPath, <<fname>>), 6)
    ELSE ReadableVariant(StripSuffix(fname), files)

\* What a ReadableFilename call leaves behind: it stats files and builds
\* commands with exec.Command, which starts nothing; the files and the
\* running subprocesses are those from before the call.
ReadableFilenameEffects_StartsCommand(fname, files, exec, running) ==
    LET rf == ReadableFilename(fname, files, exec) IN
    [files |-> files,
     procs |-> IF rf.panic \/ rf.ofcmd = NilCmd THEN running ELSE running \cup {rf.ofcmd}]

ReadableFilenameEffects(fname, files, exec, running) ==
    [files |-> files, procs |-> running]

AnyPathOK(path, files, exec) ==
    LET rf == ReadableFilename(path, files, exec) IN
    [panic |-> rf.panic, ok |-> ~rf.panic /\ rf.ofcode # 0]

\* The arguments of a command joined by single spaces.
RECURSIVE JoinArgs(_)
JoinArgs(args) ==
    IF Len(args) = 0 THEN <<>>
    ELSE IF Len(args) = 1 THEN args[1]
    ELSE args[1] \o <<" ">> \o JoinArgs(Tail(args))

ReadableFilenameCommand(fname, files, exec) ==
    LET rf == ReadableFilename(fname, files, exec) IN
    [panic |-> rf.panic,
     ostr |-> IF rf.panic \/ rf.ofcmd = NilCmd THEN <<>> ELSE JoinArgs(rf.ofcmd)]

(***************************************************************************)
(* OpenAny, OpenAnyIO, OpenAnyErr.  A reader is described by how it gets   *)
(* its bytes: "pipe" (standard output of the command cmd), "gzip" and      *)
(* "bzip2" (in-process decoding of the opened file), "direct" (the opened  *)
(* file itself).  live is FALSE for a reader nothing can be read from: a   *)
(* pipe whose command was never started, or a decoder that is nil because  *)
(* gzip.NewReader failed.  e gives the outcome of each system call.        *)
(***************************************************************************)
NilReader == [method |-> "nil", cmd |-> NilCmd, file |-> NoFile, live |-> FALSE]
Reader(method, cmd, file, live) ==
    [method |-> method, cmd |-> cmd, file |-> file, live |-> live]

\* What an open leaves: panic or the values returned, the subprocesses it
\* started and the files it opened and did not close.
OpenPanicked(started, opened) ==
    [panic |-> TRUE, reader |-> NilReader, err |-> FALSE,
     procs |-> started, handles |-> opened]
Opened(reader, started, opened) ==
    [panic |-> FALSE, reader |-> reader, err |-> FALSE,
     procs |-> started, handles |-> opened]
\* A failed open that reports no error.
OpenFailed_NilError(started, opened) ==
    [panic |-> FALSE, reader |-> NilReader, err |-> FALSE,
     procs |-> started, handles |-> opened]

OpenFailed(started, opened) ==
    [panic |-> FALSE, reader |-> NilReader, err |-> TRUE,
     procs |-> started, handles |-> opened]

PipeCodes == {1, 7, 4, 10, 5}
GzipCodes == {2, 8}
Bzip2Codes == {3, 9}
DirectCodes == {6, 11}

OpenAny(fname, files, exec, e) ==
    LET rf == ReadableFilename(fname, files, exec) IN
    IF rf.panic THEN OpenPanicked({}, {})
    ELSE IF rf.ofcode \in PipeCodes
    THEN LET started == IF e.start THEN {rf.ofcmd} ELSE {} IN
         IF ~e.pipe THEN OpenPanicked(started, {})
         ELSE Opened(Reader("pipe", rf.ofcmd, NoFile, e.start), started, {})
    ELSE IF rf.ofcode \in GzipCodes
    THEN IF ~e.open THEN OpenPanicked({}, {})
         ELSE Opened(Reader("gzip", NilCmd, rf.ofname, e.newreader), {}, {rf.ofname})
    ELSE IF rf.ofcode \in Bzip2Codes
    THEN IF ~e.open THEN OpenPanicked({}, {})
         ELSE Opened(Reader("bzip2", NilCmd, rf.ofname, TRUE), {}, {rf.ofname})
    ELSE IF rf.ofcode \in DirectCodes
    THEN IF ~e.open THEN OpenPanicked({}, {})
         ELSE Opened(Reader("direct", NilCmd, rf.ofname, TRUE), {}, {rf.ofname})
    ELSE Opened(NilReader, {}, {})

\* OpenAnyIO takes the same steps and returns the reader without a buffer.
OpenAnyIO(fname, files, exec, e) ==
    LET rf == ReadableFilename(fname, files, exec) IN
    IF rf.panic THEN OpenPanicked({}, {})
    ELSE IF rf.ofcode \in PipeCodes
    THEN LET started == IF e.start THEN {rf.ofcmd} ELSE {} IN
         IF ~e.pipe THEN OpenPanicked(started, {})
         ELSE Opened(Reader("pipe", rf.ofcmd, NoFile, e.start), started, {})
    ELSE IF rf.ofcode \in GzipCodes
    THEN IF ~e.open THEN OpenPanicked({}, {})
         ELSE Opened(Reader("gzip", NilCmd, rf.ofname, e.newreader), {}, {rf.ofname})
    ELSE IF rf.ofcode \in Bzip2Codes
    THEN IF ~e.open THEN OpenPanicked({}, {})
         ELSE Opened(Reader("bzip2", NilCmd, rf.ofname, TRUE), {}, {rf.ofname})
    ELSE IF rf.ofcode \in DirectCodes
    THEN IF ~e.open THEN OpenPanicked({}, {})
         ELSE Opened(Reader("direct", NilCmd, rf.ofname, TRUE), {}, {rf.ofname})
    ELSE Opened(NilReader, {}, {})

OpenAnyErr(fname, files, exec, e) ==
    LET rf == ReadableFilename(fname, files, exec) IN
    IF rf.panic THEN OpenPanicked({}, {})
    ELSE IF rf.ofcmd = NilCmd THEN OpenFailed({}, {})
    ELSE IF rf.ofcode \in PipeCodes
    THEN IF ~e.pipe THEN OpenFailed({}, {})
         ELSE IF ~e.start THEN OpenFailed({}, {})
         ELSE Opened(Reader("pipe", rf.ofcmd, NoFile, TRUE), {rf.ofcmd}, {})
    ELSE IF rf.ofcode \in GzipCodes
    THEN IF ~e.open THEN OpenFailed({}, {})
         ELSE IF ~e.newreader THEN OpenFailed({}, {})
         ELSE Opened(Reader("gzip", NilCmd, rf.ofname, TRUE), {}, {rf.ofname})
    ELSE IF rf.ofcode \in Bzip2Codes
    THEN IF ~e.open THEN OpenFailed({}, {})
         ELSE Opened(Reader("bzip2", NilCmd, rf.ofname, TRUE), {}, {rf.ofname})
    ELSE IF rf.ofcode \in DirectCodes
    THEN IF ~e.open THEN OpenFailed({}, {})
         ELSE Opened(Reader("direct", NilCmd, rf.ofname, TRUE), {}, {rf.ofname})
    ELSE OpenFailed({}, {})

(***************************************************************************)
(* WritableFilename                                                        *)
(***************************************************************************)
\* os.Remove either removes the file (rmok) or fails, and then
\* PathRemoveOrPanic panics.
\* A removal whose failure goes unnoticed.
PathRemoveOrPanic_IgnoreError(fname, files, rmok) ==
    [panic |-> FALSE, files |-> IF rmok THEN files \ {fname} ELSE files]

PathRemoveOrPanic(fname, files, rmok) ==
    [panic |-> ~rmok, files |-> IF rmok THEN files \ {fname} ELSE files]

Removed(ofname, ofcode, rm) ==
    IF rm.panic
    THEN [ofname |-> <<>>, ofcode |-> 0, panic |-> TRUE, files |-> rm.files]
    ELSE [ofname |-> ofname, ofcode |-> ofcode, panic |-> FALSE, files |-> rm.files]

\* A variant search that tries .gz before .xz.
WritableVariant_GzFirst(tmpf, files, rmok) ==
    IF PathOK(tmpf \o DotGz, files)
    THEN Removed(tmpf \o DotGz, 8, PathRemoveOrPanic(tmpf \o DotGz, files, rmok))
    ELSE IF PathOK(tmpf \o DotXz, files)
    THEN Removed(tmpf \o DotXz, 7, PathRemoveOrPanic(tmpf \o DotXz, files, rmok))
    ELSE IF PathOK(tmpf \o DotBz2, files)
    THEN Removed(tmpf \o DotBz2, 9, PathRemoveOrPanic(tmpf \o DotBz2, files, rmok))
    ELSE IF PathOK(tmpf \o DotZip, files)
    THEN Removed(tmpf \o DotZip, 10, PathRemoveOrPanic(tmpf \o DotZip, files, rmok))
    ELSE IF PathOK(tmpf, files)
    THEN Removed(tmpf, 11, PathRemoveOrPanic(tmpf, files, rmok))
    ELSE [ofname |-> DevNull, ofcode |-> 0, panic |-> FALSE, files |-> files]

\* Remove any variant of the file: the first that exists, in the order of
\* the switch.
WritableVariant(tmpf, files, rmok) ==
    IF PathOK(tmpf \o DotXz, files)
    THEN Removed(tmpf \o DotXz, 7, PathRemoveOrPanic(tmpf \o DotXz, files, rmok))
    ELSE IF PathOK(tmpf \o DotGz, files)
    THEN Removed(tmpf \o DotGz, 8, PathRemoveOrPanic(tmpf \o DotGz, files, rmok))
    ELSE IF PathOK(tmpf \o DotBz2, files)
    THEN Removed(tmpf \o DotBz2, 9, PathRemoveOrPanic(tmpf \o DotBz2, files, rmok))
    ELSE IF PathOK(tmpf \o DotZip, files)
    THEN Removed(tmpf \o DotZip, 10, PathRemoveOrPanic(tmpf \o DotZip, files, rmok))
    ELSE IF PathOK(tmpf, files)
    THEN Removed(tmpf, 11, PathRemoveOrPanic(tmpf, files, rmok))
    ELSE [ofname |-> DevNull, ofcode |-> 0, panic |-> FALSE, files |-> files]

\* A write-resolution that skips the name as given and goes to its variants.
WritableFilename_VariantsOnly(fname, files, rmok) ==
    WritableVariant(StripSuffix(fname), files, rmok)

WritableFilename(fname, files, rmok) ==
    LET fok == PathOK(fname, files) IN
    IF HasSuffix(fname, DotXz) /\ fok
    THEN Removed(fname, 1, PathRemoveOrPanic(fname, files, rmok))
    ELSE IF HasSuffix(fname, DotGz) /\ fok
    THEN Removed(fname, 2, PathRemoveOrPanic(fname, files, rmok))
    ELSE IF HasSuffix(fname, DotBz2) /\ fok
    THEN Removed(fname, 3, PathRemoveOrPanic(fname, files, rmok))
    ELSE IF HasSuffix(fname, DotZip) /\ fok
    THEN Removed(fname, 4, PathRemoveOrPanic(fname, files, rmok))
    ELSE IF fok
    THEN Removed(fname, 6, PathRemoveOrPanic(fname, files, rmok))
    ELSE WritableVariant(StripSuffix(fname), files, rmok)

(***************************************************************************)
(* OpenGzFile: write-resolution unless the name is under /dev/, then       *)
(* os.Create, which panics on failure (createok is its outcome).  A file   *)
(* that os.Create makes anew has no execute bit; one it truncates keeps    *)
(* its mode.                                                               *)
(***************************************************************************)
OpenGzFile(fname, files, exec, rmok, createok) ==
    LET wr == IF HasPrefix(fname, DevPrefix)
              THEN [ofname |-> DevNull, ofcode |-> 0, panic |-> FALSE, files |-> files]
              ELSE WritableFilename(fname, files, rmok)
        \* the execute bits of the files that survive the removal
        left == exec \cap wr.files
    IN  IF wr.panic
        THEN [panic |-> TRUE, files |-> wr.files, exec |-> left, gz |-> FALSE]
        ELSE IF ~createok
        THEN [panic |-> TRUE, files |-> wr.files, exec |-> left, gz |-> FALSE]
        ELSE [panic |-> FALSE, files |-> wr.files \cup {fname}, exec |-> left,
              gz |-> HasSuffix(fname, DotGz)]

(***************************************************************************)
(* The state machine over the filesystem.  op, arg and ret record the last *)
(* call and what it returned, pre and prex the filesystem it ran on, and   *)
(* fresh the file OpenGzFile created if nothing was written since.         *)
(***************************************************************************)
\* No second invocation of a sort function has been made.
NotAgain == [done |-> FALSE, iter |-> <<>>, out |-> <<>>]
\* The outcome of each system call an open makes after resolution: TRUE
\* when StdoutPipe, Start, os.Open, gzip.NewReader succeeds.
AllSucceed == [pipe |-> TRUE, start |-> TRUE, open |-> TRUE, newreader |-> TRUE]
Envs == [pipe : BOOLEAN, start : BOOLEAN, open : BOOLEAN, newreader : BOOLEAN]
\* No GzFile has been made.
NoGzFile == [open |-> FALSE, wwgz |-> FALSE, zpend |-> <<>>, wpend |-> <<>>,
             out |-> <<>>, lost |-> <<>>, fclosed |-> FALSE, accepted |-> <<>>,
             calls |-> <<>>]
\* No stream: nothing has been opened for reading.
NoContent == [lines |-> <<>>, tail |-> 0]
Regular(files) == files \ {DevNull}

Init ==
    /\ fs \in { S \cup {DevNull} : S \in { T \in SUBSET PlainNames : Cardinality(T) <= MaxFiles } }
    /\ xbit \in SUBSET { f \in fs : HasSuffix(f, DotBash) }
    /\ op = "init"
    /\ arg = NoFile
    /\ ret = [panic |-> FALSE]
    /\ pre = fs
    /\ prex = xbit
    /\ fresh = NoFile
    /\ skind = "none"
    /\ sfn = "none"
    /\ smap = <<>>
    /\ siter = <<>>
    /\ sout = <<>>
    /\ again = NotAgain
    /\ procs = {}
    /\ handles = {}
    /\ env = AllSucceed
    /\ content = NoContent
    /\ stream = NoContent
    /\ num = 0
    /\ count = 0
    /\ keepbase = FALSE
    /\ ndel = 0
    /\ gzf = NoGzFile
    /\ pc = "idle"

CallReadableFilename ==
    \E n \in Names :
        /\ op' = "ReadableFilename"
        /\ arg' = n
        /\ ret' = ReadableFilename(n, fs, xbit)
        /\ pre' = fs
        /\ prex' = xbit
        /\ fs' = ReadableFilenameEffects(n, fs, xbit, procs).files
        /\ procs' = ReadableFilenameEffects(n, fs, xbit, procs).procs
        /\ UNCHANGED <<xbit, fresh>>
        /\ UNCHANGED sortvars
        /\ UNCHANGED <<handles, env, content, stream, num, count, keepbase, ndel, gzf, pc>>

CallAnyPathOK ==
    \E n \in Names :
        /\ op' = "AnyPathOK"
        /\ arg' = n
        /\ ret' = AnyPathOK(n, fs, xbit)
        /\ pre' = fs
        /\ prex' = xbit
        /\ fs' = ReadableFilenameEffects(n, fs, xbit, procs).files
        /\ procs' = ReadableFilenameEffects(n, fs, xbit, procs).procs
        /\ UNCHANGED <<xbit, fresh>>
        /\ UNCHANGED sortvars
        /\ UNCHANGED <<handles, env, content, stream, num, count, keepbase, ndel, gzf, pc>>

CallReadableFilenameCommand ==
    \E n \in Names :
        /\ op' = "ReadableFilenameCommand"
        /\ arg' = n
        /\ ret' = ReadableFilenameCommand(n, fs, xbit)
        /\ pre' = fs
        /\ prex' = xbit
        /\ fs' = ReadableFilenameEffects(n, fs, xbit, procs).files
        /\ procs' = ReadableFilenameEffects(n, fs, xbit, procs).procs
        /\ UNCHANGED <<xbit, fresh>>
        /\ UNCHANGED sortvars
        /\ UNCHANGED <<handles, env, content, stream, num, count, keepbase, ndel, gzf, pc>>

\* Write-resolution is called on the regular names; the null device stays.
CallWritableFilename ==
    \E n \in PlainNames, rmok \in BOOLEAN :
        LET r == WritableFilename(n, fs, rmok) IN
        /\ op' = "WritableFilename"
        /\ arg' = n
        /\ ret' = [ofname |-> r.ofname, ofcode |-> r.ofcode, panic |-> r.panic]
        /\ pre' = fs
        /\ prex' = xbit
        /\ fs' = r.files
        /\ xbit' = xbit \cap r.files
        /\ fresh' = NoFile
        /\ UNCHANGED sortvars
        /\ UNCHANGED iovars

CallOpenGzFile ==
    \E n \in Names, rmok \in BOOLEAN, createok \in BOOLEAN :
        LET r == OpenGzFile(n, fs, xbit, rmok, createok) IN
        /\ Cardinality(Regular(r.files)) <= MaxFiles
        /\ op' = "OpenGzFile"
        /\ arg' = n
        /\ ret' = [panic |-> r.panic, gz |-> r.gz]
        /\ pre' = fs
        /\ prex' = xbit
        /\ fs' = r.files
        /\ xbit' = r.exec
        /\ fresh' = IF r.panic THEN NoFile ELSE n
        /\ UNCHANGED sortvars
        /\ UNCHANGED iovars

Next ==
    \/ CallReadableFilename
    \/ CallWritableFilename
    \/ CallOpenGzFile

Spec == Init /\ [][Next]_vars

(***************************************************************************)
(* CompressType and RemoveCompressionVariants                              *)
(***************************************************************************)
CompressType(fname) ==
    IF HasSuffix(fname, DotXz) THEN 1
    ELSE IF HasSuffix(fname, DotGz) THEN 2
    ELSE IF HasSuffix(fname, DotBz2) THEN 3
    ELSE IF HasSuffix(fname, DotZip) \/ HasSuffix(fname, DotZIP) THEN 4
    ELSE IF HasSuffix(fname, DotBash) THEN 5
    ELSE IF HasSuffix(fname, DotZip) THEN 4
    ELSE 0

VariantExts == <<<<>>, DotXz, DotGz, DotBz2, DotZip, DotZIP>>

\* A loop that stops after the first file it removes.
RECURSIVE RemoveVariantsFrom_FirstOnly(_, _, _, _, _)
RemoveVariantsFrom_FirstOnly(fbase, i, keep, files, bad) ==
    IF i > Len(VariantExts) THEN [panic |-> FALSE, files |-> files]
    ELSE IF keep /\ VariantExts[i] = <<>>
    THEN RemoveVariantsFrom_FirstOnly(fbase, i + 1, keep, files, bad)
    ELSE IF ~PathOK(fbase \o VariantExts[i], files)
    THEN RemoveVariantsFrom_FirstOnly(fbase, i + 1, keep, files, bad)
    ELSE PathRemoveOrPanic(fbase \o VariantExts[i], files, fbase \o VariantExts[i] # bad)

\* The loop of RemoveCompressionVariants from the i-th extension on; the
\* removal of the file bad is the one that fails.
RECURSIVE RemoveVariantsFrom(_, _, _, _, _)
RemoveVariantsFrom(fbase, i, keep, files, bad) ==
    IF i > Len(VariantExts) THEN [panic |-> FALSE, files |-> files]
    ELSE IF keep /\ VariantExts[i] = <<>>
    THEN RemoveVariantsFrom(fbase, i + 1, keep, files, bad)
    ELSE LET ff == fbase \o VariantExts[i] IN
         IF ~PathOK(ff, files)
         THEN RemoveVariantsFrom(fbase, i + 1, keep, files, bad)
         ELSE LET rm == PathRemoveOrPanic(ff, files, ff # bad) IN
              IF rm.panic THEN rm
              ELSE RemoveVariantsFrom(fbase, i + 1, keep, rm.files, bad)

RemoveCompressionVariants(fname, keep, files, bad) ==
    RemoveVariantsFrom(CompressionBasename(fname), 1, keep, files, bad)

\* Names given to CompressionBasename: those of the filesystem and some
\* with stacked or bare suffixes.
BaseNames ==
    Names \cup { DotXz, DotGz \o DotBz2, Stem \o DotZIP \o DotXz,
                 Stem \o DotZip \o DotZIP, Stem \o DotBash \o DotGz }

\* RemoveCompressionVariants called on a filesystem as it was found.
CallRemoveCompressionVariants ==
    /\ op \in {"init", "CompressionBasename"}
    /\ \E n \in PlainNames, keep \in BOOLEAN, bad \in {NoFile} \cup Regular(fs) :
        LET r == RemoveCompressionVariants(n, keep, fs, bad) IN
        /\ op' = "RemoveCompressionVariants"
        /\ arg' = n
        /\ keepbase' = keep
        /\ ret' = [panic |-> r.panic]
        /\ pre' = fs
        /\ prex' = xbit
        /\ fs' = r.files
        /\ xbit' = xbit \cap r.files
        /\ fresh' = NoFile
        /\ UNCHANGED sortvars
        /\ UNCHANGED <<procs, handles, env, content, stream, num, count, pc, ndel, gzf>>

CallCompressionBasename ==
    \E n \in BaseNames :
        /\ op' = "CompressionBasename"
        /\ arg' = n
        /\ ret' = [panic |-> FALSE, base |-> CompressionBasename(n)]
        /\ pre' = fs
        /\ prex' = xbit
        /\ UNCHANGED <<fs, xbit, fresh>>
        /\ UNCHANGED sortvars
        /\ UNCHANGED iovars

VariantNext ==
    \/ CallRemoveCompressionVariants
    \/ CallCompressionBasename

VariantSpec == Init /\ [][VariantNext]_vars

CallCompressType ==
    \E n \in Names :
        /\ op' = "CompressType"
        /\ arg' = n
        /\ ret' = [panic |-> FALSE, code |-> CompressType(n)]
        /\ pre' = fs
        /\ prex' = xbit
        /\ UNCHANGED <<fs, xbit, fresh>>
        /\ UNCHANGED sortvars
        /\ UNCHANGED iovars

(***************************************************************************)
(* WritableFilename called again and again on one name, every removal      *)
(* succeeding and nothing else writing; ndel counts the calls that         *)
(* returned a non-zero code, i.e. the deletions.                           *)
(***************************************************************************)
ConvInit ==
    /\ fs \in { S \cup {DevNull} : S \in SUBSET PlainNames }
    /\ xbit = {}
    /\ arg \in PlainNames
    /\ op = "init"
    /\ ndel = 0
    /\ gzf = NoGzFile
    /\ ret = [panic |-> FALSE]
    /\ pre = fs
    /\ prex = xbit
    /\ fresh = NoFile
    /\ procs = {}
    /\ handles = {}
    /\ env = AllSucceed
    /\ content = NoContent
    /\ stream = NoContent
    /\ num = 0
    /\ count = 0
    /\ keepbase = FALSE
    /\ pc = "idle"
    /\ skind = "none"
    /\ smap = <<>>
    /\ siter = <<>>
    /\ sfn = "none"
    /\ sout = <<>>
    /\ again = NotAgain

RepeatWritableFilename ==
    LET r == WritableFilename(arg, fs, TRUE) IN
    /\ op' = "WritableFilename"
    /\ ret' = [ofname |-> r.ofname, ofcode |-> r.ofcode, panic |-> r.panic]
    /\ ndel' = IF r.ofcode # 0 THEN ndel + 1 ELSE ndel
    /\ pre' = fs
    /\ prex' = xbit
    /\ fs' = r.files
    /\ xbit' = xbit \cap r.files
    /\ UNCHANGED <<arg, fresh>>
    /\ UNCHANGED sortvars
    /\ UNCHANGED <<procs, handles, env, content, stream, num, count, keepbase, gzf, pc>>

ConvNext == RepeatWritableFilename

\* The caller keeps calling.
ConvSpec == ConvInit /\ [][ConvNext]_vars /\ WF_vars(ConvNext)

(***************************************************************************)
(* GzFile.  fo is the file, ww a bufio.Writer on fo, wwgz (for a name in   *)
(* .gz) a gzip.Writer on ww.  The bytes are followed in chunks, one per    *)
(* write: zpend holds the chunks the gzip writer has taken and not yet     *)
(* passed on, wpend the items the buffered writer holds, out the items     *)
(* handed to the file, lost the items written to the file after it was     *)
(* closed.  The gzip writer passes a chunk c on as <<"gz", c>> and ends    *)
(* its stream with a trailer; the buffered writer passes items unchanged.  *)
(* Whether a writer passes its pending items on during a write (its buffer *)
(* filling up) is up to the library: zemit, wemit.                         *)
(***************************************************************************)
MaxWrites == 2
Chunks == {"a", "b"}
Trailer == <<"gz", "trailer">>
Encode(cs) == [i \in DOMAIN cs |-> <<"gz", cs[i]>>]

\* self := new(GzFile) ... return (*self) of OpenGzFile
NewGzFile(isgz) == [NoGzFile EXCEPT !.open = TRUE, !.wwgz = isgz]

\* ww.Write reaching the file: fo.Write on a closed file fails.
BufioEmit(g) ==
    IF g.fclosed
    THEN [g EXCEPT !.lost = @ \o g.wpend, !.wpend = <<>>]
    ELSE [g EXCEPT !.out = @ \o g.wpend, !.wpend = <<>>]

GzipEmit(g) == [g EXCEPT !.wpend = @ \o Encode(g.zpend), !.zpend = <<>>]

\* GzFile.Write and GzFile.WriteString: to wwgz when it is not nil, else
\* to ww.
Write(g, c, zemit, wemit) ==
    LET g1 == IF g.wwgz
              THEN LET z == [g EXCEPT !.zpend = Append(@, c),
                                      !.accepted = Append(@, <<c, "wwgz">>)]
                   IN  IF zemit THEN GzipEmit(z) ELSE z
              ELSE [g EXCEPT !.wpend = Append(@, <<"raw", c>>),
                             !.accepted = Append(@, <<c, "ww">>)]
    IN  IF wemit THEN BufioEmit(g1) ELSE g1

WriteString(g, c, zemit, wemit) ==
    LET g1 == IF g.wwgz
              THEN LET z == [g EXCEPT !.zpend = Append(@, c),
                                      !.accepted = Append(@, <<c, "wwgz">>)]
                   IN  IF zemit THEN GzipEmit(z) ELSE z
              ELSE [g EXCEPT !.wpend = Append(@, <<"raw", c>>),
                             !.accepted = Append(@, <<c, "ww">>)]
    IN  IF wemit THEN BufioEmit(g1) ELSE g1

GzipFlush(g) == [GzipEmit(g) EXCEPT !.calls = Append(@, "wwgz.Flush")]
GzipClose(g) ==
    [GzipEmit(g) EXCEPT !.wpend = Append(@, Trailer), !.calls = Append(@, "wwgz.Close")]
BufioFlush(g) == [BufioEmit(g) EXCEPT !.calls = Append(@, "ww.Flush")]
FileClose(g) == [g EXCEPT !.fclosed = TRUE, !.calls = Append(@, "fo.Close")]

\* A Close that closes the file before it flushes the buffered writer.
Close_FileFirst(g) ==
    LET g1 == IF g.wwgz THEN GzipClose(GzipFlush(g)) ELSE g
    IN  BufioFlush(FileClose(g1))

\* GzFile.Close; ww is never nil in a GzFile that OpenGzFile returned.
Close(g) ==
    LET g1 == IF g.wwgz THEN GzipClose(GzipFlush(g)) ELSE g
    IN  FileClose(BufioFlush(g1))

GzOpen ==
    /\ op = "init"
    /\ \E n \in Names, rmok \in BOOLEAN, createok \in BOOLEAN :
        LET r == OpenGzFile(n, fs, xbit, rmok, createok) IN
        /\ op' = "OpenGzFile"
        /\ arg' = n
        /\ ret' = [panic |-> r.panic, gz |-> r.gz]
        /\ gzf' = IF r.panic THEN NoGzFile ELSE NewGzFile(r.gz)
        /\ pre' = fs
        /\ prex' = xbit
        /\ fs' = r.files
        /\ xbit' = r.exec
        /\ fresh' = IF r.panic THEN NoFile ELSE n
        /\ UNCHANGED sortvars
        /\ UNCHANGED <<procs, handles, env, content, stream, num, count, keepbase, ndel, pc>>

GzWrite ==
    /\ gzf.open
    /\ ~gzf.fclosed
    /\ Len(gzf.accepted) < MaxWrites
    /\ \E c \in Chunks, zemit \in BOOLEAN, wemit \in BOOLEAN :
        gzf' = Write(gzf, c, zemit, wemit)
    /\ op' = "Write"
    /\ UNCHANGED <<fs, xbit, arg, ret, pre, prex, fresh>>
    /\ UNCHANGED sortvars
    /\ UNCHANGED <<procs, handles, env, content, stream, num, count, keepbase, ndel, pc>>

GzWriteString ==
    /\ gzf.open
    /\ ~gzf.fclosed
    /\ Len(gzf.accepted) < MaxWrites
    /\ \E c \in Chunks, zemit \in BOOLEAN, wemit \in BOOLEAN :
        gzf' = WriteString(gzf, c, zemit, wemit)
    /\ op' = "WriteString"
    /\ UNCHANGED <<fs, xbit, arg, ret, pre, prex, fresh>>
    /\ UNCHANGED sortvars
    /\ UNCHANGED <<procs, handles, env, content, stream, num, count, keepbase, ndel, pc>>

GzClose ==
    /\ gzf.open
    /\ ~gzf.fclosed
    /\ gzf' = Close(gzf)
    /\ op' = "Close"
    /\ UNCHANGED <<fs, xbit, arg, ret, pre, prex, fresh>>
    /\ UNCHANGED sortvars
    /\ UNCHANGED <<procs, handles, env, content, stream, num, count, keepbase, ndel, pc>>

GzNext ==
    \/ GzOpen
    \/ GzWrite
    \/ GzWriteString
    \/ GzClose

GzSpec == Init /\ [][GzNext]_vars

\* The three ways to open a name for reading, each called on a process that
\* has opened nothing yet, under every outcome of the system calls.
CallOpenAny ==
    /\ op = "init"
    /\ \E n \in Names, e \in Envs :
        LET r == OpenAny(n, fs, xbit, e) IN
        /\ op' = "OpenAny"
        /\ arg' = n
        /\ env' = e
        /\ ret' = [panic |-> r.panic, reader |-> r.reader, err |-> r.err]
        /\ procs' = procs \cup r.procs
        /\ handles' = handles \cup r.handles
        /\ pre' = fs
        /\ prex' = xbit
        /\ UNCHANGED <<fs, xbit, fresh>>
        /\ UNCHANGED sortvars
        /\ UNCHANGED <<content, stream, num, count, keepbase, ndel, gzf, pc>>

CallOpenAnyIO ==
    /\ op = "init"
    /\ \E n \in Names, e \in Envs :
        LET r == OpenAnyIO(n, fs, xbit, e) IN
        /\ op' = "OpenAnyIO"
        /\ arg' = n
        /\ env' = e
        /\ ret' = [panic |-> r.panic, reader |-> r.reader, err |-> r.err]
        /\ procs' = procs \cup r.procs
        /\ handles' = handles \cup r.handles
        /\ pre' = fs
        /\ prex' = xbit
        /\ UNCHANGED <<fs, xbit, fresh>>
        /\ UNCHANGED sortvars
        /\ UNCHANGED <<content, stream, num, count, keepbase, ndel, gzf, pc>>

CallOpenAnyErr ==
    /\ op = "init"
    /\ \E n \in Names, e \in Envs :
        LET r == OpenAnyErr(n, fs, xbit, e) IN
        /\ op' = "OpenAnyErr"
        /\ arg' = n
        /\ env' = e
        /\ ret' = [panic |-> r.panic, reader |-> r.reader, err |-> r.err]
        /\ procs' = procs \cup r.procs
        /\ handles' = handles \cup r.handles
        /\ pre' = fs
        /\ prex' = xbit
        /\ UNCHANGED <<fs, xbit, fresh>>
        /\ UNCHANGED sortvars
        /\ UNCHANGED <<content, stream, num, count, keepbase, ndel, gzf, pc>>

OpenNext ==
    \/ CallOpenAny
    \/ CallOpenAnyIO
    \/ CallOpenAnyErr

OpenSpec == Init /\ [][OpenNext]_vars

(***************************************************************************)
(* GetNumLines.  The bytes of a stream are given by the lengths of its     *)
(* lines: lines[i] is the number of bytes of the i-th line before its      *)
(* newline, tail the number of bytes after the last newline.               *)
(***************************************************************************)
\* bufio.NewReaderSize(fi, 20*4096)
BufSize == 20 * 4096

MaxLines == 2
LineLengths == {0, 1, BufSize - 1, BufSize, BufSize + 1}
TailLengths == {0, 1, BufSize, BufSize + 1}
Contents ==
    UNION { [lines : [1..n -> LineLengths], tail : TailLengths] : n \in 0..MaxLines }
LineFiles == {Stem, Stem \o DotGz, Stem \o DotXz}

\* bufio.Reader.ReadLine on the bytes left in st: ReadSlice('\n') returns
\* the bytes up to and including the next newline if they fit the buffer,
\* else a full buffer (ErrBufferFull, which ReadLine turns into a nil
\* error with isPrefix set); at the end of the input it returns the bytes
\* left, and ReadLine gives the error only when there are none.
ReadLine(st) ==
    IF Len(st.lines) > 0
    THEN IF st.lines[1] + 1 <= BufSize
         THEN [err |-> FALSE, isPrefix |-> FALSE,
               rest |-> [lines |-> Tail(st.lines), tail |-> st.tail]]
         ELSE [err |-> FALSE, isPrefix |-> TRUE,
               rest |-> [lines |-> <<st.lines[1] - BufSize>> \o Tail(st.lines),
                         tail |-> st.tail]]
    ELSE IF st.tail = 0
    THEN [err |-> TRUE, isPrefix |-> FALSE, rest |-> st]
    ELSE IF st.tail < BufSize
    THEN [err |-> FALSE, isPrefix |-> FALSE, rest |-> [lines |-> <<>>, tail |-> 0]]
    ELSE [err |-> FALSE, isPrefix |-> TRUE,
          rest |-> [lines |-> <<>>, tail |-> st.tail - BufSize]]

\* One turn of the loop of GetNumLines: break on an error, else num++.
GetNumLines_Step(st, n) ==
    LET rl == ReadLine(st) IN
    IF rl.err THEN [done |-> TRUE, num |-> n, rest |-> st]
    ELSE [done |-> FALSE, num |-> n + 1, rest |-> rl.rest]

\* A process with some content behind the name it is about to count.
LineInit ==
    /\ fs \in { S \cup {DevNull} : S \in SUBSET LineFiles }
    /\ xbit = {}
    /\ content \in Contents
    /\ stream = NoContent
    /\ num = 0
    /\ count = 0
    /\ keepbase = FALSE
    /\ ndel = 0
    /\ gzf = NoGzFile
    /\ pc = "idle"
    /\ op = "init"
    /\ arg = NoFile
    /\ ret = [panic |-> FALSE]
    /\ pre = fs
    /\ prex = xbit
    /\ fresh = NoFile
    /\ procs = {}
    /\ handles = {}
    /\ env = AllSucceed
    /\ skind = "none"
    /\ smap = <<>>
    /\ siter = <<>>
    /\ sfn = "none"
    /\ sout = <<>>
    /\ again = NotAgain

\* r := OpenAny(_fname)
GetNumLines_Open ==
    /\ pc = "idle"
    /\ \E n \in {Stem, Stem \o DotGz}, e \in Envs :
        LET r == OpenAny(n, fs, xbit, e) IN
        /\ op' = "GetNumLines"
        /\ arg' = n
        /\ env' = e
        /\ ret' = [panic |-> r.panic, reader |-> r.reader, err |-> r.err]
        /\ procs' = procs \cup r.procs
        /\ handles' = handles \cup r.handles
        /\ pc' = IF r.panic THEN "panic" ELSE "loop"
        /\ stream' = IF ~r.panic /\ r.reader.live THEN content ELSE NoContent
        /\ num' = 0
        /\ pre' = fs
        /\ prex' = xbit
        /\ UNCHANGED <<fs, xbit, fresh, content, count, keepbase, ndel, gzf>>
        /\ UNCHANGED sortvars

\* _, _, err = r.ReadLine(); if err != nil { break }; num++
\* A nil reader, and a reader over a nil gzip decoder, panic on the first
\* read; a pipe whose command never started gives an error at once.
GetNumLines_ReadLine ==
    /\ pc = "loop"
    /\ IF ret.reader = NilReader \/ (ret.reader.method = "gzip" /\ ~ret.reader.live)
       THEN pc' = "panic" /\ UNCHANGED <<stream, num>>
       ELSE IF ~ret.reader.live
       THEN pc' = "done" /\ UNCHANGED <<stream, num>>
       ELSE LET st == GetNumLines_Step(stream, num) IN
            /\ pc' = IF st.done THEN "done" ELSE "loop"
            /\ stream' = st.rest
            /\ num' = st.num
    /\ UNCHANGED <<procs, handles, env, content, count, keepbase, ndel, gzf>>
    /\ UNCHANGED fsvars
    /\ UNCHANGED sortvars

\* bufio.Reader.ReadSlice('\n') on the bytes left in st: the bytes up to
\* and including the next newline if they fit the buffer, a full buffer
\* with ErrBufferFull if they do not, and at the end of the input the
\* bytes left with io.EOF.  len is the length of the slice returned.
ReadSlice(st) ==
    IF Len(st.lines) > 0
    THEN IF st.lines[1] + 1 <= BufSize
         THEN [err |-> "nil", len |-> st.lines[1] + 1,
               rest |-> [lines |-> Tail(st.lines), tail |-> st.tail]]
         ELSE [err |-> "ErrBufferFull", len |-> BufSize,
               rest |-> [lines |-> <<st.lines[1] - BufSize>> \o Tail(st.lines),
                         tail |-> st.tail]]
    ELSE IF st.tail < BufSize
    THEN [err |-> "EOF", len |-> st.tail, rest |-> [lines |-> <<>>, tail |-> 0]]
    ELSE [err |-> "ErrBufferFull", len |-> BufSize,
          rest |-> [lines |-> <<>>, tail |-> st.tail - BufSize]]

\* strings.Split(_comments, ",") for the empty string: one empty tag.
NoCommentTags == <<"">>

\* A line of len bytes, blank when it consists of spaces only and hash
\* when its first byte after leading spaces is '#'.
IsCommentLine(len, blank, hash, commenttags) ==
    \E i \in DOMAIN commenttags :
        \/ commenttags[i] = "Whitespace" /\ len > 0 /\ blank
        \/ commenttags[i] = "WhitespaceHash" /\ len > 0 /\ hash

\* One turn of the loop of GetFileLineCount: break on io.EOF, continue on
\* ErrBufferFull and on a comment line, else count++.
GetFileLineCount_Step(st, n, blank, hash, commenttags) ==
    LET rs == ReadSlice(st) IN
    IF rs.err = "EOF" THEN [done |-> TRUE, count |-> n, rest |-> rs.rest]
    ELSE IF rs.err = "ErrBufferFull" THEN [done |-> FALSE, count |-> n, rest |-> rs.rest]
    ELSE IF IsCommentLine(rs.len - 1, blank, hash, commenttags)
    THEN [done |-> FALSE, count |-> n, rest |-> rs.rest]
    ELSE [done |-> FALSE, count |-> n + 1, rest |-> rs.rest]

\* GetFileLineCount(_fname, "") called on the name GetNumLines has just
\* counted, with the system calls behaving as they did then:
\* bio, err := OpenAnyErr(_fname); if err != nil { return 0, err }
GetFileLineCount_Open ==
    /\ pc = "done"
    /\ LET r == OpenAnyErr(arg, fs, xbit, env) IN
        /\ op' = "GetFileLineCount"
        /\ ret' = [panic |-> r.panic, reader |-> r.reader, err |-> r.err]
        /\ procs' = procs \cup r.procs
        /\ handles' = handles \cup r.handles
        /\ pc' = IF r.panic THEN "panic" ELSE IF r.err THEN "returned" ELSE "count"
        /\ stream' = IF ~r.panic /\ r.reader.live THEN content ELSE NoContent
        /\ count' = 0
        /\ UNCHANGED <<arg, pre, prex, fs, xbit, fresh, content, num, env, keepbase, ndel, gzf>>
        /\ UNCHANGED sortvars

GetFileLineCount_ReadSlice ==
    /\ pc = "count"
    /\ \E blank \in BOOLEAN, hash \in BOOLEAN :
        LET st == GetFileLineCount_Step(stream, count, blank, hash, NoCommentTags) IN
        /\ pc' = IF st.done THEN "returned" ELSE "count"
        /\ stream' = st.rest
        /\ count' = st.count
    /\ UNCHANGED <<procs, handles, env, content, num, keepbase, ndel, gzf>>
    /\ UNCHANGED fsvars
    /\ UNCHANGED sortvars

LineNext ==
    \/ GetNumLines_Open
    \/ GetNumLines_ReadLine
    \/ GetFileLineCount_Open
    \/ GetFileLineCount_ReadSlice

LineSpec == LineInit /\ [][LineNext]_vars

\* The read-resolution entry points alone.
ReadNext ==
    \/ CallReadableFilename
    \/ CallAnyPathOK
    \/ CallReadableFilenameCommand
    \/ CallCompressType

ReadSpec == Init /\ [][ReadNext]_vars

(***************************************************************************)
(* Properties of the file resolution                                       *)
(***************************************************************************)
\* The candidates of a name, in the order the resolution tries them after
\* the name itself.
Candidates(fname) ==
    LET base == StripSuffix(fname) IN
    <<base \o DotXz, base \o DotGz, base \o DotBz2, base \o DotZip, base>>

\* The index of the first candidate that exists in files, 0 if none does.
FirstExisting(cands, files) ==
    IF \E i \in 1..Len(cands) : cands[i] \in files
    THEN CHOOSE i \in 1..Len(cands) :
            /\ cands[i] \in files
            /\ \A j \in 1..(i - 1) : cands[j] \notin files
    ELSE 0

\* The access code the suffix of an existing name selects.
ExactCode(fname) ==
    IF HasSuffix(fname, DotXz) THEN 1
    ELSE IF HasSuffix(fname, DotGz) THEN 2
    ELSE IF HasSuffix(fname, DotBz2) THEN 3
    ELSE IF HasSuffix(fname, DotZip) THEN 4
    ELSE IF HasSuffix(fname, DotBash) THEN 5
    ELSE 6

\* C1: whenever the given name exists, a ReadableFilename call that returns
\* gives that same name as the physical path, with the access code its
\* suffix selects, whatever compressed siblings exist.
C1_ExactNameFirst ==
    (op = "ReadableFilename" /\ arg \in pre /\ ~ret.panic)
        => (ret.ofname = arg /\ ret.ofcode = ExactCode(arg))

\* C2: when the given name does not exist and one of base.xz, base.gz,
\* base.bz2, base.zip, base does, ReadableFilename returns the first of
\* them that exists, with the code of that candidate (7..11).
C2_SuffixFallback ==
    (op = "ReadableFilename" /\ arg \notin pre
        /\ FirstExisting(Candidates(arg), pre) # 0)
        => LET i == FirstExisting(Candidates(arg), pre) IN
           /\ ~ret.panic
           /\ ret.ofname = Candidates(arg)[i]
           /\ ret.ofcode = 6 + i

\* C3: when neither the name nor any candidate exists, ReadableFilename
\* returns normally with code 0, a nil command and the path /dev/null; it
\* never panics.
C3_NotFoundNonFatal ==
    (op = "ReadableFilename" /\ arg \notin pre
        /\ FirstExisting(Candidates(arg), pre) = 0)
        => (~ret.panic /\ ret.ofcode = 0 /\ ret.ofcmd = NilCmd
            /\ ret.ofname = DevNull)

\* C4: after WritableFilename(name) returns, every compression variant of
\* name (base.xz, base.gz, base.bz2, base.zip) that existed before the call
\* has been deleted.
C4_AllVariantsDeleted ==
    (op = "WritableFilename" /\ ~ret.panic)
        => \A s \in {DotXz, DotGz, DotBz2, DotZip} :
              (StripSuffix(arg) \o s) \in pre => (StripSuffix(arg) \o s) \notin fs

C6_SameAsRead ==
    (op = "WritableFilename" /\ ~ret.panic /\ arg \in pre)
        => LET r == ReadableFilename(arg, pre, prex) IN
           /\ ~r.panic
           /\ ret.ofname = r.ofname
           /\ ret.ofcode = r.ofcode

\* C6 amended: for a name that does not end in .bash, a WritableFilename
\* call that returns selects (and deletes) the physical path and returns the
\* code that ReadableFilename gives on the same filesystem; for a name that
\* ends in .bash it has no script case and treats the name as a plain file:
\* code 6 and the name itself when it exists, else the variant search.
C6_SameAsReadExceptBash ==
    (op = "WritableFilename" /\ ~ret.panic)
        => LET r == ReadableFilename(arg, pre, prex)
               v == ReadableVariant(StripSuffix(arg), pre)
           IN  /\ IF ~HasSuffix(arg, DotBash)
                  THEN ~r.panic /\ ret.ofname = r.ofname /\ ret.ofcode = r.ofcode
                  ELSE IF arg \in pre
                  THEN ret.ofname = arg /\ ret.ofcode = 6
                  ELSE ret.ofname = v.ofname /\ ret.ofcode = v.ofcode
               /\ fs = IF ret.ofcode = 0 THEN pre ELSE pre \ {ret.ofname}

C6_Witness ==
    /\ op = "WritableFilename"
    /\ ~ret.panic
    /\ ~HasSuffix(arg, DotBash)
    /\ arg \in pre
    /\ StripSuffix(arg) \o DotXz \in pre
    /\ ret.ofname = arg
    /\ arg \notin fs

\* C7: after OpenGzFile(name), name not under /dev/, has created the file,
\* every ReadableFilename call that returns, on name or on a name with the
\* same base name (the name less one of .xz, .gz, .bz2, .zip), resolves to
\* the newly created file.
C7_NoStaleShadowing ==
    (op = "ReadableFilename" /\ fresh # NoFile /\ ~HasPrefix(fresh, DevPrefix)
        /\ StripSuffix(arg) = StripSuffix(fresh) /\ ~ret.panic)
        => ret.ofname = fresh


(***************************************************************************)
(* Sorting: package sort on a slice of fewer than 12 elements is an        *)
(* insertion sort driven by the slice's Less and Swap.                     *)
(***************************************************************************)
\* A swap that overwrites one element instead of exchanging the two.
Swap_Overwrite(Slice, i, j) == [Slice EXCEPT ![i] = Slice[j]]

\* Slice[i], Slice[j] = Slice[j], Slice[i]
Swap(Slice, i, j) == [Slice EXCEPT ![i] = Slice[j], ![j] = Slice[i]]

\* The byte of a character.
Ord(c) == CASE c = "a" -> 97 [] c = "b" -> 98

\* Go's s < t on strings: bytewise lexicographic.
StringLess(s, t) ==
    \E k \in 1..(Len(s) + 1) :
        /\ k <= Len(t)
        /\ \A m \in 1..(k - 1) : s[m] = t[m]
        /\ (k = Len(s) + 1 \/ Ord(s[k]) < Ord(t[k]))

\* A float64 is a number or NaN; every comparison with NaN is false.
Float(n) == [nan |-> FALSE, num |-> n]
NaN == [nan |-> TRUE, num |-> 0]
FloatLess(x, y) == ~x.nan /\ ~y.nan /\ x.num < y.num
FloatGreater(x, y) == ~x.nan /\ ~y.nan /\ x.num > y.num
Abs(n) == IF n < 0 THEN -n ELSE n
\* math.Abs
FloatAbs(x) == IF x.nan THEN x ELSE Float(Abs(x.num))

\* sort.StringSlice.Less and sort.IntSlice.Less
StringSliceLess(x, i, j) == StringLess(x[i], x[j])
IntSliceLess(x, i, j) == x[i] < x[j]

\* A comparison the wrong way round.
Less_Ascending_Flipped(Slice, i, j) == FloatGreater(Slice[i].val_, Slice[j].val_)

Less_Ascending(Slice, i, j) == FloatLess(Slice[i].val_, Slice[j].val_)

\* A comparison of the signed values where the absolute values are meant.
Less_AbsAscending_Signed(Slice, i, j) == FloatLess(Slice[i].val_, Slice[j].val_)

Less_AbsAscending(Slice, i, j) ==
    FloatLess(FloatAbs(Slice[i].val_), FloatAbs(Slice[j].val_))

Less_Descending(Slice, i, j) == FloatGreater(Slice[i].val_, Slice[j].val_)

Less_AbsDescending(Slice, i, j) ==
    FloatGreater(FloatAbs(Slice[i].val_), FloatAbs(Slice[j].val_))

\* sort.Interface: the Less method of the slice's type.
Less(type, Slice, i, j) ==
    CASE type = "StringSlice" -> StringSliceLess(Slice, i, j)
      [] type = "IntSlice" -> IntSliceLess(Slice, i, j)
      [] type = "myelemSliceFloat64SortAscending" -> Less_Ascending(Slice, i, j)
      [] type = "myelemSliceFloat64SortAbsAscending" -> Less_AbsAscending(Slice, i, j)
      [] type = "myelemSliceFloat64SortDescending" -> Less_Descending(Slice, i, j)
      [] type = "myelemSliceFloat64SortAbsDescending" -> Less_AbsDescending(Slice, i, j)

\* for j := i; j > a && data.Less(j, j-1); j-- { data.Swap(j, j-1) }
RECURSIVE InsertionSortInner(_, _, _)
InsertionSortInner(type, data, j) ==
    IF j > 1 /\ Less(type, data, j, j - 1)
    THEN InsertionSortInner(type, Swap(data, j, j - 1), j - 1)
    ELSE data

\* for i := a + 1; i < b; i++ { ... }
RECURSIVE InsertionSortFrom(_, _, _)
InsertionSortFrom(type, data, i) ==
    IF i <= Len(data)
    THEN InsertionSortFrom(type, InsertionSortInner(type, data, i), i + 1)
    ELSE data

\* sort.Sort on a slice of fewer than 12 elements
InsertionSort(type, data) == InsertionSortFrom(type, data, 2)

\* sort.Strings and sort.Ints
SortStrings(x) == InsertionSort("StringSlice", x)
SortInts(x) == InsertionSort("IntSlice", x)

(***************************************************************************)
(* genutil_sortbykey.go.  mp is the map, iter the order in which range     *)
(* enumerates its keys on this call.                                       *)
(***************************************************************************)
SortedKeys_String2Int(mp, iter) ==
    LET keys == [ii \in 1..Cardinality(DOMAIN mp) |-> iter[ii]]
    IN  SortStrings(keys)

SortedKeys_String2Int64(mp, iter) ==
    LET keys == [ii \in 1..Cardinality(DOMAIN mp) |-> iter[ii]]
    IN  SortStrings(keys)

SortedKeys_String2Float64(mp, iter) ==
    LET keys == [ii \in 1..Cardinality(DOMAIN mp) |-> iter[ii]]
    IN  SortStrings(keys)

SortedKeys_String2Bool(mp, iter) ==
    LET keys == [ii \in 1..Cardinality(DOMAIN mp) |-> iter[ii]]
    IN  SortStrings(keys)

SortedKeys_String2String(mp, iter) ==
    LET keys == [ii \in 1..Cardinality(DOMAIN mp) |-> iter[ii]]
    IN  SortStrings(keys)

\* A version that returns the keys as collected, without sorting them.
SortedKeys_Int2Int_Unsorted(mp, iter) ==
    [ii \in 1..Cardinality(DOMAIN mp) |-> iter[ii]]

SortedKeys_Int2Int(mp, iter) ==
    LET keys == [ii \in 1..Cardinality(DOMAIN mp) |-> iter[ii]]
    IN  SortInts(keys)

(***************************************************************************)
(* genutil_sortbyval.go                                                    *)
(***************************************************************************)
\* The slice of (key, value) elements in the order range enumerates them.
\* A loop that deletes each pair it has copied.
MapAfterRange_Drained(mp) == <<>>

\* The map after `for kk, vv := range *_mp` (and `for kk := range *_mp`):
\* the loop copies keys and values out and assigns nothing to the map.
MapAfterRange(mp) == mp

Elems(mp, iter) ==
    [ii \in 1..Cardinality(DOMAIN mp) |-> [kk_ |-> iter[ii], val_ |-> mp[iter[ii]]]]

SortedKeysByVal_String2Float64_Ascending(mp, iter) ==
    LET mlen == Cardinality(DOMAIN mp)
        sorted == InsertionSort("myelemSliceFloat64SortAscending", Elems(mp, iter))
    IN  [ii \in 1..mlen |-> sorted[ii].kk_]

SortedKeysByVal_String2Float64_AbsAscending(mp, iter) ==
    LET mlen == Cardinality(DOMAIN mp)
        sorted == InsertionSort("myelemSliceFloat64SortAbsAscending", Elems(mp, iter))
    IN  [ii \in 1..mlen |-> sorted[ii].kk_]

SortedKeysByVal_String2Float64_Descending(mp, iter) ==
    LET mlen == Cardinality(DOMAIN mp)
        sorted == InsertionSort("myelemSliceFloat64SortDescending", Elems(mp, iter))
    IN  [ii \in 1..mlen |-> sorted[ii].kk_]

SortedKeysByVal_String2Float64_AbsDescending(mp, iter) ==
    LET mlen == Cardinality(DOMAIN mp)
        sorted == InsertionSort("myelemSliceFloat64SortAbsDescending", Elems(mp, iter))
    IN  [ii \in 1..mlen |-> sorted[ii].kk_]

(***************************************************************************)
(* The state machine over the sort functions: a map of kind skind, the     *)
(* order iter in which range enumerates it, the function called on it and  *)
(* the slice it returned.                                                  *)
(***************************************************************************)
\* The most keys in a map.
MaxKeys == 3

StringKeys == { <<>>, <<"a">>, <<"a", "b">>, <<"b">> }
IntKeys == { -2, -1, 0, 3 }
IntValues == { -1, 1 }
StringValues == { <<>>, <<"a">> }
Float64Values == { Float(-2), Float(-1), Float(1), NaN }

\* The maps with keys in K and values in V, and the orders in which the
\* keys of a map can be enumerated.
MapsOf(K, V) ==
    UNION { [ks -> V] : ks \in { T \in SUBSET K : Cardinality(T) <= MaxKeys } }
Orders(ks) ==
    { q \in [1..Cardinality(ks) -> ks] : \A k \in ks : \E i \in DOMAIN q : q[i] = k }

ValuesOf(kind) ==
    CASE kind = "String2Int" -> IntValues
      [] kind = "String2Int64" -> IntValues
      [] kind = "String2Float64" -> Float64Values
      [] kind = "String2Bool" -> BOOLEAN
      [] kind = "String2String" -> StringValues
      [] kind = "Int2Int" -> IntValues

SortInit ==
    /\ skind \in { "String2Int", "String2Int64", "String2Float64",
                   "String2Bool", "String2String", "Int2Int" }
    /\ smap \in MapsOf(IF skind = "Int2Int" THEN IntKeys ELSE StringKeys, ValuesOf(skind))
    /\ siter \in Orders(DOMAIN smap)
    /\ sfn = "none"
    /\ sout = <<>>
    /\ again = NotAgain
    /\ fs = {DevNull}
    /\ xbit = {}
    /\ op = "init"
    /\ arg = NoFile
    /\ ret = [panic |-> FALSE]
    /\ pre = fs
    /\ prex = xbit
    /\ fresh = NoFile
    /\ procs = {}
    /\ handles = {}
    /\ env = AllSucceed
    /\ content = NoContent
    /\ stream = NoContent
    /\ num = 0
    /\ count = 0
    /\ keepbase = FALSE
    /\ ndel = 0
    /\ gzf = NoGzFile
    /\ pc = "idle"

CallSortedKeys_String2Int ==
    /\ sfn = "none"
    /\ skind = "String2Int"
    /\ sfn' = "SortedKeys_String2Int"
    /\ sout' = SortedKeys_String2Int(smap, siter)
    /\ smap' = MapAfterRange(smap)
    /\ UNCHANGED <<skind, siter, again>>
    /\ UNCHANGED fsvars
    /\ UNCHANGED iovars

CallSortedKeys_String2Int64 ==
    /\ sfn = "none"
    /\ skind = "String2Int64"
    /\ sfn' = "SortedKeys_String2Int64"
    /\ sout' = SortedKeys_String2Int64(smap, siter)
    /\ smap' = MapAfterRange(smap)
    /\ UNCHANGED <<skind, siter, again>>
    /\ UNCHANGED fsvars
    /\ UNCHANGED iovars

CallSortedKeys_String2Float64 ==
    /\ sfn = "none"
    /\ skind = "String2Float64"
    /\ sfn' = "SortedKeys_String2Float64"
    /\ sout' = SortedKeys_String2Float64(smap, siter)
    /\ smap' = MapAfterRange(smap)
    /\ UNCHANGED <<skind, siter, again>>
    /\ UNCHANGED fsvars
    /\ UNCHANGED iovars

CallSortedKeys_String2Bool ==
    /\ sfn = "none"
    /\ skind = "String2Bool"
    /\ sfn' = "SortedKeys_String2Bool"
    /\ sout' = SortedKeys_String2Bool(smap, siter)
    /\ smap' = MapAfterRange(smap)
    /\ UNCHANGED <<skind, siter, again>>
    /\ UNCHANGED fsvars
    /\ UNCHANGED iovars

CallSortedKeys_String2String ==
    /\ sfn = "none"
    /\ skind = "String2String"
    /\ sfn' = "SortedKeys_String2String"
    /\ sout' = SortedKeys_String2String(smap, siter)
    /\ smap' = MapAfterRange(smap)
    /\ UNCHANGED <<skind, siter, again>>
    /\ UNCHANGED fsvars
    /\ UNCHANGED iovars

CallSortedKeys_Int2Int ==
    /\ sfn = "none"
    /\ skind = "Int2Int"
    /\ sfn' = "SortedKeys_Int2Int"
    /\ sout' = SortedKeys_Int2Int(smap, siter)
    /\ smap' = MapAfterRange(smap)
    /\ UNCHANGED <<skind, siter, again>>
    /\ UNCHANGED fsvars
    /\ UNCHANGED iovars

CallSortedKeysByVal_Ascending ==
    /\ sfn = "none"
    /\ skind = "String2Float64"
    /\ sfn' = "SortedKeysByVal_String2Float64_Ascending"
    /\ sout' = SortedKeysByVal_String2Float64_Ascending(smap, siter)
    /\ smap' = MapAfterRange(smap)
    /\ UNCHANGED <<skind, siter, again>>
    /\ UNCHANGED fsvars
    /\ UNCHANGED iovars

CallSortedKeysByVal_AbsAscending ==
    /\ sfn = "none"
    /\ skind = "String2Float64"
    /\ sfn' = "SortedKeysByVal_String2Float64_AbsAscending"
    /\ sout' = SortedKeysByVal_String2Float64_AbsAscending(smap, siter)
    /\ smap' = MapAfterRange(smap)
    /\ UNCHANGED <<skind, siter, again>>
    /\ UNCHANGED fsvars
    /\ UNCHANGED iovars

CallSortedKeysByVal_Descending ==
    /\ sfn = "none"
    /\ skind = "String2Float64"
    /\ sfn' = "SortedKeysByVal_String2Float64_Descending"
    /\ sout' = SortedKeysByVal_String2Float64_Descending(smap, siter)
    /\ smap' = MapAfterRange(smap)
    /\ UNCHANGED <<skind, siter, again>>
    /\ UNCHANGED fsvars
    /\ UNCHANGED iovars

CallSortedKeysByVal_AbsDescending ==
    /\ sfn = "none"
    /\ skind = "String2Float64"
    /\ sfn' = "SortedKeysByVal_String2Float64_AbsDescending"
    /\ sout' = SortedKeysByVal_String2Float64_AbsDescending(smap, siter)
    /\ smap' = MapAfterRange(smap)
    /\ UNCHANGED <<skind, siter, again>>
    /\ UNCHANGED fsvars
    /\ UNCHANGED iovars

\* The function named fn called on the map mp, whose pairs the range loop
\* enumerates in the order iter.
SortFunction(fn, mp, iter) ==
    CASE fn = "SortedKeys_String2Int" -> SortedKeys_String2Int(mp, iter)
      [] fn = "SortedKeys_String2Int64" -> SortedKeys_String2Int64(mp, iter)
      [] fn = "SortedKeys_String2Float64" -> SortedKeys_String2Float64(mp, iter)
      [] fn = "SortedKeys_String2Bool" -> SortedKeys_String2Bool(mp, iter)
      [] fn = "SortedKeys_String2String" -> SortedKeys_String2String(mp, iter)
      [] fn = "SortedKeys_Int2Int" -> SortedKeys_Int2Int(mp, iter)
      [] fn = "SortedKeysByVal_String2Float64_Ascending"
            -> SortedKeysByVal_String2Float64_Ascending(mp, iter)
      [] fn = "SortedKeysByVal_String2Float64_AbsAscending"
            -> SortedKeysByVal_String2Float64_AbsAscending(mp, iter)
      [] fn = "SortedKeysByVal_String2Float64_Descending"
            -> SortedKeysByVal_String2Float64_Descending(mp, iter)
      [] fn = "SortedKeysByVal_String2Float64_AbsDescending"
            -> SortedKeysByVal_String2Float64_AbsDescending(mp, iter)

\* A second invocation of the same function on the same map in the same
\* execution; the runtime picks the enumeration order of each range loop
\* afresh.
CallSameFunctionAgain ==
    /\ sfn # "none"
    /\ ~again.done
    /\ \E iter \in Orders(DOMAIN smap) :
           again' = [done |-> TRUE, iter |-> iter, out |-> SortFunction(sfn, smap, iter)]
    /\ smap' = MapAfterRange(smap)
    /\ UNCHANGED <<skind, siter, sfn, sout>>
    /\ UNCHANGED fsvars
    /\ UNCHANGED iovars

SortNext ==
    \/ CallSortedKeys_String2Int
    \/ CallSortedKeys_String2Int64
    \/ CallSortedKeys_String2Float64
    \/ CallSortedKeys_String2Bool
    \/ CallSortedKeys_String2String
    \/ CallSortedKeys_Int2Int
    \/ CallSortedKeysByVal_Ascending
    \/ CallSortedKeysByVal_AbsAscending
    \/ CallSortedKeysByVal_Descending
    \/ CallSortedKeysByVal_AbsDescending
    \/ CallSameFunctionAgain

SortSpec == SortInit /\ [][SortNext]_vars

(***************************************************************************)
(* Properties of the sort functions                                        *)
(***************************************************************************)
KeySortFns ==
    { "SortedKeys_String2Int", "SortedKeys_String2Int64", "SortedKeys_String2Float64",
      "SortedKeys_String2Bool", "SortedKeys_String2String", "SortedKeys_Int2Int" }

\* k comes strictly before l: numerically for int keys, bytewise
\* lexicographically for string keys.
KeyBefore(k, l) == IF skind = "Int2Int" THEN k < l ELSE StringLess(k, l)

\* Go's x <= y and x >= y on float64.
FloatLeq(x, y) == ~x.nan /\ ~y.nan /\ x.num <= y.num
FloatGeq(x, y) == ~x.nan /\ ~y.nan /\ x.num >= y.num

\* C8: every SortedKeys_* function returns exactly the keys of the map in
\* strictly ascending order (which makes the sequence unique).
C8_KeySort ==
    sfn \in KeySortFns
        => /\ { sout[i] : i \in DOMAIN sout } = DOMAIN smap
           /\ \A i \in 1..(Len(sout) - 1) : KeyBefore(sout[i], sout[i + 1])

C8_Witness ==
    /\ sfn \in KeySortFns
    /\ Len(sout) = MaxKeys
    /\ sout # siter
    /\ \E i \in 1..(Len(sout) - 1) : sout[i] = <<"a">> /\ sout[i + 1] = <<"a", "b">>

\* C9: every key-sort and value-sort function returns a sequence of length
\* len(M) in which every key of M occurs exactly once and nothing else
\* occurs; the empty map gives the empty sequence.
C9_Permutation ==
    sfn # "none"
        => /\ Len(sout) = Cardinality(DOMAIN smap)
           /\ \A k \in DOMAIN smap : Cardinality({ i \in DOMAIN sout : sout[i] = k }) = 1
           /\ \A i \in DOMAIN sout : sout[i] \in DOMAIN smap

C9_Witness ==
    /\ sfn = "SortedKeysByVal_String2Float64_Ascending"
    /\ Cardinality(DOMAIN smap) = MaxKeys
    /\ sout # siter
    /\ \E k \in DOMAIN smap : smap[k].nan

C9_WitnessEmpty ==
    /\ sfn # "none"
    /\ DOMAIN smap = {}
    /\ sout = <<>>

\* C10 as stated: for every map, the Ascending function returns keys with
\* M[out[i]] <= M[out[i+1]] for every adjacent pair, and the Descending
\* function keys with M[out[i]] >= M[out[i+1]].
C10_ValueSort ==
    /\ sfn = "SortedKeysByVal_String2Float64_Ascending"
        => \A i \in 1..(Len(sout) - 1) : FloatLeq(smap[sout[i]], smap[sout[i + 1]])
    /\ sfn = "SortedKeysByVal_String2Float64_Descending"
        => \A i \in 1..(Len(sout) - 1) : FloatGeq(smap[sout[i]], smap[sout[i + 1]])

\* C10 amended: the same for every map none of whose values is NaN.
C10_ValueSortNoNaN ==
    /\ (sfn = "SortedKeysByVal_String2Float64_Ascending"
            /\ \A k \in DOMAIN smap : ~smap[k].nan)
        => \A i \in 1..(Len(sout) - 1) : FloatLeq(smap[sout[i]], smap[sout[i + 1]])
    /\ (sfn = "SortedKeysByVal_String2Float64_Descending"
            /\ \A k \in DOMAIN smap : ~smap[k].nan)
        => \A i \in 1..(Len(sout) - 1) : FloatGeq(smap[sout[i]], smap[sout[i + 1]])

C10_Witness ==
    /\ sfn = "SortedKeysByVal_String2Float64_Descending"
    /\ Cardinality(DOMAIN smap) = MaxKeys
    /\ \A k \in DOMAIN smap : ~smap[k].nan
    /\ \E k, l \in DOMAIN smap : k # l /\ smap[k] = smap[l]
    /\ \E k, l \in DOMAIN smap : smap[k] # smap[l]
    /\ sout # siter

\* C11 as stated: for every map, the AbsAscending function returns keys with
\* |M[out[i]]| <= |M[out[i+1]]| for every adjacent pair, and the
\* AbsDescending function keys with |M[out[i]]| >= |M[out[i+1]]|.
C11_AbsValueSort ==
    /\ sfn = "SortedKeysByVal_String2Float64_AbsAscending"
        => \A i \in 1..(Len(sout) - 1) :
               FloatLeq(FloatAbs(smap[sout[i]]), FloatAbs(smap[sout[i + 1]]))
    /\ sfn = "SortedKeysByVal_String2Float64_AbsDescending"
        => \A i \in 1..(Len(sout) - 1) :
               FloatGeq(FloatAbs(smap[sout[i]]), FloatAbs(smap[sout[i + 1]]))

\* C11 amended: the same for every map none of whose values is NaN.
C11_AbsValueSortNoNaN ==
    /\ (sfn = "SortedKeysByVal_String2Float64_AbsAscending"
            /\ \A k \in DOMAIN smap : ~smap[k].nan)
        => \A i \in 1..(Len(sout) - 1) :
               FloatLeq(FloatAbs(smap[sout[i]]), FloatAbs(smap[sout[i + 1]]))
    /\ (sfn = "SortedKeysByVal_String2Float64_AbsDescending"
            /\ \A k \in DOMAIN smap : ~smap[k].nan)
        => \A i \in 1..(Len(sout) - 1) :
               FloatGeq(FloatAbs(smap[sout[i]]), FloatAbs(smap[sout[i + 1]]))

\* A negative value of larger magnitude is placed after a positive value of
\* smaller magnitude by AbsAscending, against the signed order.
C11_Witness ==
    /\ sfn = "SortedKeysByVal_String2Float64_AbsAscending"
    /\ Cardinality(DOMAIN smap) = MaxKeys
    /\ \A k \in DOMAIN smap : ~smap[k].nan
    /\ \E i \in 1..(Len(sout) - 1) :
           /\ smap[sout[i]] = Float(1)
           /\ smap[sout[i + 1]] = Float(-2)
    /\ sout # siter

\* C12: a second invocation of the same sort function on the same map in the
\* same execution returns the key sequence the first invocation returned,
\* whatever order the map's pairs are enumerated in by either invocation.
C12_Determinism ==
    again.done => again.out = sout

\* C12 for the key sorts alone.
C12_KeySortDeterminism ==
    (again.done /\ sfn \in KeySortFns) => again.out = sout

C12_Witness ==
    /\ again.done
    /\ sfn \in KeySortFns
    /\ Cardinality(DOMAIN smap) = MaxKeys
    /\ again.iter # siter
    /\ again.out # again.iter

\* C13: for a name ending in .bash, ReadableFilename returns code 5 with the
\* command that runs that file if the file is marked executable, and panics
\* if the file exists but is not executable.
C13_ScriptResolution ==
    (op = "ReadableFilename" /\ HasSuffix(arg, DotBash))
        => /\ arg \in prex
               => /\ ~ret.panic
                  /\ ret.ofcode = 5
                  /\ ret.ofcmd = <<arg>>
           /\ (arg \in pre /\ arg \notin prex) => ret.panic

C13_Witness ==
    /\ op = "ReadableFilename"
    /\ HasSuffix(arg, DotBash)
    /\ arg \in prex
    /\ ret.ofcode = 5
    /\ pre # {arg, DevNull}

C13_WitnessNotExecutable ==
    /\ op = "ReadableFilename"
    /\ HasSuffix(arg, DotBash)
    /\ arg \in pre
    /\ arg \notin prex
    /\ ret.panic

\* C16: if the removal of the candidate WritableFilename selected fails (the
\* file is still there afterwards), the call panics and returns no code; a
\* call that returns a non-zero code has removed the file it names.
C16_DeletionFailureFatal ==
    op = "WritableFilename"
        => LET cands == <<arg>> \o Candidates(arg)
               i == FirstExisting(cands, pre)
           IN  /\ (i # 0 /\ cands[i] \in fs) => ret.panic
               /\ (~ret.panic /\ ret.ofcode # 0)
                      => (ret.ofname \in pre /\ ret.ofname \notin fs)

C16_Witness ==
    /\ op = "WritableFilename"
    /\ ret.panic
    /\ fs = pre
    /\ arg \notin pre
    /\ FirstExisting(Candidates(arg), pre) > 1

C16_WitnessRemoved ==
    /\ op = "WritableFilename"
    /\ ~ret.panic
    /\ ret.ofcode # 0
    /\ ret.ofname \in pre \ fs

\* C15: ReadableFilename, AnyPathOK and ReadableFilenameCommand leave the set
\* of existing files (and their permission bits) as it was and start no
\* subprocess, for every name and every filesystem state.
C15_ReadOnly ==
    op \in {"ReadableFilename", "AnyPathOK", "ReadableFilenameCommand"}
        => (fs = pre /\ xbit = prex /\ procs = {})

C15_Witness ==
    /\ op = "ReadableFilenameCommand"
    /\ arg \notin pre
    /\ ret.ostr = XzcatPath \o <<" ">> \o StripSuffix(arg) \o DotXz
    /\ fs = pre
    /\ Cardinality(Regular(fs)) = MaxFiles

C15_WitnessAnyPathOK ==
    /\ op = "AnyPathOK"
    /\ arg \notin pre
    /\ ret.ok
    /\ fs = pre

OpenOps == {"OpenAny", "OpenAnyIO", "OpenAnyErr"}

\* The resolution the open was made on.
Resolution == ReadableFilename(arg, pre, prex)

\* C17: when read-resolution yields not-found (code 0), OpenAnyErr returns a
\* nil reader with a non-nil error, and OpenAny and OpenAnyIO panic instead
\* of returning.
C17_OpenNotFound ==
    (op \in OpenOps /\ ~Resolution.panic /\ Resolution.ofcode = 0)
        => IF op = "OpenAnyErr"
           THEN ~ret.panic /\ ret.reader = NilReader /\ ret.err
           ELSE ret.panic

\* C17 amended: OpenAny and OpenAnyIO return a nil reader without panicking.
C17_OpenNotFoundReturnsNil ==
    (op \in OpenOps /\ ~Resolution.panic /\ Resolution.ofcode = 0)
        => /\ ~ret.panic
           /\ ret.reader = NilReader
           /\ ret.err <=> (op = "OpenAnyErr")

C17_Witness ==
    /\ op = "OpenAny"
    /\ ~Resolution.panic
    /\ Resolution.ofcode = 0
    /\ Regular(pre) # {}
    /\ ret.reader = NilReader

C17_WitnessErr ==
    /\ op = "OpenAnyErr"
    /\ ~Resolution.panic
    /\ Resolution.ofcode = 0
    /\ ret.err

\* C18: for the pipe and script methods, if the subprocess cannot be
\* started, OpenAny and OpenAnyIO panic and OpenAnyErr returns a nil reader
\* with a non-nil error; no entry point returns a reader over a subprocess
\* that failed to start.
C18_SpawnFailure ==
    (op \in OpenOps /\ ~Resolution.panic /\ Resolution.ofcode \in PipeCodes
        /\ ~env.start)
        => /\ IF op = "OpenAnyErr"
              THEN ~ret.panic /\ ret.reader = NilReader /\ ret.err
              ELSE ret.panic
           /\ ret.reader = NilReader

\* C18 for OpenAnyErr alone.
C18_SpawnFailureErr ==
    (op = "OpenAnyErr" /\ ~Resolution.panic /\ Resolution.ofcode \in PipeCodes
        /\ ~env.start)
        => (~ret.panic /\ ret.reader = NilReader /\ ret.err)

\* C19: for the direct, gzip and bzip2 methods, a failure to open the
\* resolved file or to initialise its decoder makes OpenAny and OpenAnyIO
\* panic and OpenAnyErr return a nil reader with a non-nil error; no entry
\* point returns a non-nil reader after such a failure.
C19_OpenFailure ==
    (op \in OpenOps /\ ~Resolution.panic
        /\ Resolution.ofcode \in (GzipCodes \cup Bzip2Codes \cup DirectCodes)
        /\ (~env.open \/ (Resolution.ofcode \in GzipCodes /\ ~env.newreader)))
        => /\ IF op = "OpenAnyErr"
              THEN ~ret.panic /\ ret.reader = NilReader /\ ret.err
              ELSE ret.panic
           /\ ret.reader = NilReader

\* C19 for OpenAnyErr alone.
C19_OpenFailureErr ==
    (op = "OpenAnyErr" /\ ~Resolution.panic
        /\ Resolution.ofcode \in (GzipCodes \cup Bzip2Codes \cup DirectCodes)
        /\ (~env.open \/ (Resolution.ofcode \in GzipCodes /\ ~env.newreader)))
        => (~ret.panic /\ ret.reader = NilReader /\ ret.err)

\* The file an open takes its bytes from: the script itself for code 5,
\* the resolved physical path otherwise.
PhysicalPath ==
    IF Resolution.ofcode = 5 THEN arg ELSE Resolution.ofname

\* C14: on every successful open by OpenAny or OpenAnyErr the way the bytes
\* are obtained follows the suffix of the resolved physical path: .xz the
\* xzcat pipe, .gz in-process gzip, .bz2 in-process bzip2, .zip the unzip
\* pipe, .bash the output of the script, no such suffix a direct read; a
\* file with one of these suffixes is never read directly.
C14_MethodFollowsSuffix ==
    (op \in {"OpenAny", "OpenAnyErr"} /\ ~ret.panic /\ ret.reader # NilReader
        /\ ret.reader.live)
        => LET p == PhysicalPath
               r == ret.reader
           IN  IF HasSuffix(p, DotXz)
               THEN r.method = "pipe" /\ r.cmd = <<XzcatPath, p>>
               ELSE IF HasSuffix(p, DotGz)
               THEN r.method = "gzip" /\ r.file = p
               ELSE IF HasSuffix(p, DotBz2)
               THEN r.method = "bzip2" /\ r.file = p
               ELSE IF HasSuffix(p, DotZip)
               THEN r.method = "pipe" /\ r.cmd = <<UnzipPath, p>>
               ELSE IF HasSuffix(p, DotBash)
               THEN r.method = "pipe" /\ r.cmd = <<p>>
               ELSE r.method = "direct" /\ r.file = p

\* C20, on the contents that end with a newline or are empty: GetNumLines
\* reads the stream to its end and returns exactly the number of
\* newline-terminated records, whatever the length of a record relative to
\* the reader's buffer.
C20_LineCount ==
    (pc = "done" /\ ret.reader.live /\ content.tail = 0)
        => (num = Len(content.lines) /\ stream = NoContent)

\* C20 on every content, with or without a final newline.
C20_LineCountAnyContent ==
    (pc = "done" /\ ret.reader.live)
        => (num = Len(content.lines) /\ stream = NoContent)

\* What GetNumLines does return: one for each record that fits the buffer
\* with its newline, and one for each buffer-sized piece of a longer
\* record and of the unterminated rest.
RECURSIVE Pieces(_)
Pieces(n) == IF n <= BufSize THEN 1 ELSE 1 + Pieces(n - BufSize)
RECURSIVE SumPieces(_)
SumPieces(ls) == IF Len(ls) = 0 THEN 0 ELSE Pieces(ls[1] + 1) + SumPieces(Tail(ls))

C20_CountsPieces ==
    (pc = "done" /\ ret.reader.live)
        => num = SumPieces(content.lines)
                   + (IF content.tail = 0 THEN 0 ELSE Pieces(content.tail))

C20_WitnessLongLine ==
    /\ pc = "done"
    /\ ret.reader.live
    /\ content = [lines |-> <<BufSize>>, tail |-> 0]
    /\ num = 2

\* C28: for every content, GetFileLineCount(name, "") returns without error
\* the count that GetNumLines(name) returned, also for an empty stream and
\* for one whose last line has no newline.
C28_CountersAgree ==
    (pc = "returned" /\ ret.reader.live)
        => (~ret.err /\ count = num)

\* What GetFileLineCount does return: the number of newline-terminated
\* lines.
C28_CountsTerminatedLines ==
    (pc = "returned" /\ ret.reader.live) => count = Len(content.lines)

\* C21: every file handle and every subprocess acquired when a stream is
\* opened is released on every exit path: none is left once GetNumLines or
\* GetFileLineCount has returned.
C21_ResourcesReleased ==
    pc \in {"done", "returned"} => (handles = {} /\ procs = {})

VariantFiles(fname) ==
    { CompressionBasename(fname) \o VariantExts[i] : i \in DOMAIN VariantExts }

\* C23: after RemoveCompressionVariants(name, keepbase) returns, none of
\* base.xz, base.gz, base.bz2, base.zip, base.ZIP exists, with
\* base = CompressionBasename(name); base exists iff keepbase is true and it
\* existed before; every other file is as it was.
C23_VariantsRemoved ==
    (op = "RemoveCompressionVariants" /\ ~ret.panic)
        => LET base == CompressionBasename(arg) IN
           /\ \A x \in {DotXz, DotGz, DotBz2, DotZip, DotZIP} : (base \o x) \notin fs
           /\ base \in fs <=> (keepbase /\ base \in pre)
           /\ fs \ VariantFiles(arg) = pre \ VariantFiles(arg)

C23_Witness ==
    /\ op = "RemoveCompressionVariants"
    /\ ~ret.panic
    /\ keepbase
    /\ CompressionBasename(arg) \in fs
    /\ Cardinality(pre \ fs) >= 2

\* C24: CompressionBasename returns a prefix of the name that ends in none
\* of .xz, .gz, .bz2, .zip, .ZIP, and applying it again changes nothing.
C24_Basename ==
    op = "CompressionBasename"
        => /\ HasPrefix(arg, ret.base)
           /\ \A x \in {DotXz, DotGz, DotBz2, DotZip, DotZIP} : ~HasSuffix(ret.base, x)
           /\ CompressionBasename(ret.base) = ret.base

C24_Witness ==
    /\ op = "CompressionBasename"
    /\ arg = Stem \o DotZIP \o DotXz
    /\ ret.base = Stem

\* C26, for the names that do not end in .bash: after
\* RemoveCompressionVariants(name, false) returns, ReadableFilename(name)
\* returns not-found and AnyPathOK(name) is false.
C26_UnreadableAfterRemoval ==
    (op = "RemoveCompressionVariants" /\ ~ret.panic /\ ~keepbase
        /\ ~HasSuffix(arg, DotBash))
        => /\ ~ReadableFilename(arg, fs, xbit).panic
           /\ ReadableFilename(arg, fs, xbit).ofcode = 0
           /\ ~AnyPathOK(arg, fs, xbit).ok

\* C26 for the names with at most one compression suffix.
C26_SingleSuffix ==
    (op = "RemoveCompressionVariants" /\ ~ret.panic /\ ~keepbase
        /\ ~HasSuffix(arg, DotBash)
        /\ StripSuffix(arg) = CompressionBasename(arg))
        => /\ ReadableFilename(arg, fs, xbit).ofcode = 0
           /\ ~AnyPathOK(arg, fs, xbit).ok

\* C29: for every existing name on which ReadableFilename returns, its code
\* is CompressType(name) when that is not 0, and 6 when it is.
C29_SuffixCode ==
    (op = "ReadableFilename" /\ arg \in pre /\ ~ret.panic)
        => ret.ofcode = (IF CompressType(arg) # 0 THEN CompressType(arg) ELSE 6)

\* C29 for the names that do not end in .ZIP.
C29_SuffixCodeLowerCase ==
    (op = "ReadableFilename" /\ arg \in pre /\ ~ret.panic /\ ~HasSuffix(arg, DotZIP))
        => ret.ofcode = (IF CompressType(arg) # 0 THEN CompressType(arg) ELSE 6)

\* C25, for the names other than /dev/null itself: whenever
\* ReadableFilename returns, (code = 0) iff (command is nil) iff (path is
\* /dev/null); when the code is not 0 the path is an existing file, the
\* given name for codes 1-6 and a candidate of a name that did not exist
\* for codes 7-11.
C25_ResultConsistent ==
    (op = "ReadableFilename" /\ ~ret.panic /\ arg # DevNull)
        => /\ (ret.ofcode = 0) <=> (ret.ofcmd = NilCmd)
           /\ (ret.ofcode = 0) <=> (ret.ofname = DevNull)
           /\ ret.ofcode \in 1..6 => (ret.ofname = arg /\ arg \in pre)
           /\ ret.ofcode \in 7..11
                  => /\ arg \notin pre
                     /\ ret.ofname \in pre
                     /\ \E i \in 1..5 : ret.ofname = Candidates(arg)[i]

\* C25 for the names that do not end in .bash either.
C25_ResultConsistentExceptBash ==
    (op = "ReadableFilename" /\ ~ret.panic /\ arg # DevNull
        /\ ~HasSuffix(arg, DotBash))
        => /\ (ret.ofcode = 0) <=> (ret.ofcmd = NilCmd)
           /\ (ret.ofcode = 0) <=> (ret.ofname = DevNull)
           /\ ret.ofcode \in 1..6 => (ret.ofname = arg /\ arg \in pre)
           /\ ret.ofcode \in 7..11
                  => /\ arg \notin pre
                     /\ ret.ofname \in pre
                     /\ \E i \in 1..5 : ret.ofname = Candidates(arg)[i]

\* C27: with removals succeeding and no other writer, repeated calls of
\* WritableFilename(name) come to return 0 after at most 5 deletions; when
\* a call returns 0 none of name, base.xz, base.gz, base.bz2, base.zip,
\* base exists; and after a call that returned 0 every further call returns
\* 0 and changes nothing.
C27_Converges ==
    /\ [](ndel <= 5)
    /\ []((op = "WritableFilename" /\ ret.ofcode = 0)
            => \A i \in 1..6 : (<<arg>> \o Candidates(arg))[i] \notin fs)
    /\ [][(op = "WritableFilename" /\ ret.ofcode = 0)
            => (ret'.ofcode = 0 /\ fs' = fs)]_vars
    /\ <>(op = "WritableFilename" /\ ret.ofcode = 0)

C27_Witness ==
    /\ op = "WritableFilename"
    /\ ret.ofcode = 0
    /\ ndel = 5
    /\ fs # {DevNull}

\* The chunks carried by the items handed to the file, in order.
RECURSIVE Payload(_)
Payload(items) ==
    IF Len(items) = 0 THEN <<>>
    ELSE IF items[1] = Trailer THEN Payload(Tail(items))
    ELSE <<items[1][2]>> \o Payload(Tail(items))

\* C30: for a GzFile returned by OpenGzFile, Write and WriteString go to the
\* gzip writer iff the name ends in .gz and otherwise to the buffered
\* writer; Close runs gzip flush, gzip close, buffered-writer flush, file
\* close in this order; after any writes followed by Close every accepted
\* chunk has been handed to the file, in order, before the file was closed.
C30_WriteCloseOrdering ==
    gzf.open
        => /\ \A i \in DOMAIN gzf.accepted :
                  gzf.accepted[i][2] = (IF HasSuffix(arg, DotGz) THEN "wwgz" ELSE "ww")
           /\ gzf.fclosed
                  => /\ gzf.calls = (IF HasSuffix(arg, DotGz)
                                     THEN <<"wwgz.Flush", "wwgz.Close", "ww.Flush", "fo.Close">>
                                     ELSE <<"ww.Flush", "fo.Close">>)
                     /\ gzf.lost = <<>>
                     /\ gzf.zpend = <<>>
                     /\ gzf.wpend = <<>>
                     /\ Payload(gzf.out) = [i \in DOMAIN gzf.accepted |-> gzf.accepted[i][1]]
                     /\ \A i \in DOMAIN gzf.out :
                            gzf.out[i][1] = (IF HasSuffix(arg, DotGz) THEN "gz" ELSE "raw")

C30_Witness ==
    /\ gzf.fclosed
    /\ HasSuffix(arg, DotGz)
    /\ Len(gzf.accepted) = MaxWrites
    /\ gzf.out = <<<<"gz", "a">>, <<"gz", "b">>, Trailer>>
    /\ op = "Close"

C30_WitnessPlain ==
    /\ gzf.fclosed
    /\ ~HasSuffix(arg, DotGz)
    /\ gzf.out = <<<<"raw", "b">>, <<"raw", "a">>>>

====
